---- MODULE Spec2Model ----
(***************************************************************************)
(* Model of general_256_vae: the trainer script (src/vae.py) and the       *)
(* generator script (src/generator.py), run as successive processes over   *)
(* a shared working directory.                                             *)
(*                                                                         *)
(* Model parameters are abstracted to a natural number: the number of      *)
(* optimizer steps applied since random initialisation.  Loss values are   *)
(* abstract positive integers determined by the batch and the parameters.  *)
(***************************************************************************)
EXTENDS Integers, Sequences, FiniteSets, TLC

\* ------------------------------------------------------------ bounds
MaxShort == 2       \* short epoch budgets 0..MaxShort offered besides the long ones
MaxBatches == 2     \* len(dataloader) ranges over 1..MaxBatches
MaxTest == 1        \* len(test_dataloader) ranges over 0..MaxTest
MaxLoss == 2        \* per-batch loss values range over 1..MaxLoss
MaxImages == 2      \* num_images ranges over 0..MaxImages
MaxLatent == 2      \* latent draws range over 1..MaxLatent
MaxProcs == 2       \* number of processes launched in one behaviour

\* ------------------------------------------------------------ program constants
SaveEvery == 25
SaveAfter == 24
KernelSize == 4
Padding == 1
LinearIn == 28800
ImageSide == 256
ImageChannels == 3
Micro == 1000000

SavedModelPath == "variational_autoencoder.pth"
FinalModelPath == "variational_autoencoder_final.pth"
\* faulty variant: the generator reading the final checkpoint
GeneratorModelPath_Final == "variational_autoencoder_final.pth"

GeneratorModelPath == "variational_autoencoder.pth"
Paths == {SavedModelPath, FinalModelPath, GeneratorModelPath}

NoFile == -1
NoShape == <<>>
NoRun == [done |-> FALSE]
RandomInit == 0

\* epoch budgets tried for num_epochs (the script fixes 100000)
EpochChoices == (0 .. MaxShort) \cup {SaveEvery, SaveEvery + 1, 2 * SaveEvery + MaxShort}
\* cap on the epochs allotted to trainer processes, hence on the length of model_history.txt
MaxLog == 2 * SaveEvery + MaxShort

VARIABLES
    files,          \* checkpoint files: path -> parameters or NoFile
    history,        \* model_history.txt, a sequence of lines
    genFiles,       \* generated_photos: file name -> image
    loads,          \* ghost: paths ever passed to torch.load
    launches,       \* ghost: processes launched so far
    allotted,       \* ghost: epochs allotted to the trainer processes launched so far
    lastRun,        \* ghost: start state of the latest trainer process if it completed
    num_epochs, nBatches, nTest,     \* launch-time configuration
    proc, pc,       \* running script and its position
    model,          \* model parameters of the running process
    training,       \* nn.Module.training
    grads,          \* state of the .grad buffers
    epoch, batch,
    total_mse_loss, total_kld_loss, total_loss,
    avg_mse_loss, avg_kld_loss, avg_total_loss, avg_mse_test,
    feat,           \* shape of the encoder's convolutional output in the last forward pass
    num_images, i,
    exc,            \* ghost: the exception that was raised, or "none"
    optSteps,       \* ghost: optimizer.step() calls of this process
    ops,            \* ghost: operations of the most recent batch, in order
    epochLosses,    \* ghost: <<MSE, KLD, total>> of each batch of the current epoch
    startLen, startCkpt, startModel,   \* ghost: state at process start
    saved,          \* ghost: epochs at which this process wrote the periodic checkpoint
    finalWrites,    \* ghost: writes of the final checkpoint by this process
    written,        \* ghost: file names saved by this generate_images call
    decodes,        \* ghost: one record per decoder call of generate_images
    encodes         \* ghost: encoder calls made by generate_images

fileVars == <<files, history, genFiles, loads, launches, allotted, lastRun>>
confVars == <<num_epochs, nBatches, nTest>>
trainVars == <<grads, epoch, batch, total_mse_loss, total_kld_loss, total_loss,
               avg_mse_loss, avg_kld_loss, avg_total_loss, avg_mse_test, feat>>
genVars == <<num_images, i>>
ghostTrain == <<optSteps, ops, epochLosses, saved, finalWrites>>
ghostGen == <<written, decodes, encodes>>
startVars == <<startLen, startCkpt, startModel>>
vars == <<fileVars, confVars, proc, pc, model, training, trainVars, genVars, exc,
          ghostTrain, ghostGen, startVars>>

\* ------------------------------------------------------------ pure functions
\* Encoder convolutions in order: output channels and stride of each nn.Conv2d
EncoderConvs ==
    << [ch |-> 16, stride |-> 1], [ch |-> 16, stride |-> 2],
       [ch |-> 32, stride |-> 1], [ch |-> 32, stride |-> 2],
       [ch |-> 64, stride |-> 1], [ch |-> 64, stride |-> 2],
       [ch |-> 128, stride |-> 2] >>

\* nn.Conv2d output side for input side h (dilation 1): floor((h + 2p - k) / s) + 1
ConvOut(h, k, s, p) == ((h + 2 * p - k) \div s) + 1

\* shapes <<C, H, W>> after each of the first n convolutions, input first
RECURSIVE ShapeAfter(_, _)
ShapeAfter(shape, n) ==
    IF n = 0 THEN shape
    ELSE LET prev == ShapeAfter(shape, n - 1)
             l == EncoderConvs[n]
         IN << l.ch,
               ConvOut(prev[2], KernelSize, l.stride, Padding),
               ConvOut(prev[3], KernelSize, l.stride, Padding) >>

InputShape == <<ImageChannels, ImageSide, ImageSide>>
EncoderFeatures(shape) == ShapeAfter(shape, Len(EncoderConvs))
\* nn.Flatten
FlatSize(shape) == shape[1] * shape[2] * shape[3]

\* loss_function: MSE and KLD are numbers fixed by the batch and the parameters;
\* the total is their unweighted sum
BatchMse(b, params) == 1 + ((b + params) % MaxLoss)
BatchKld(b, params) == 1 + ((2 * b + params) % MaxLoss)
loss_function(b, params) ==
    LET MSE == BatchMse(b, params)
        KLD == BatchKld(b, params)
    IN <<MSE, KLD, MSE + KLD>>

\* an f'{x:.6f}' rendering of the quotient num/den, in millionths, rounded to nearest
Format6(q) == (2 * q[1] * Micro + q[2]) \div (2 * q[2])

\* true division a / b of the averages; a zero divisor raises ZeroDivisionError
Quot(a, b) == <<a, b>>

\* the line written to model_history.txt
LogLine(e, tot, mse, kld, test) ==
    [Epoch |-> e, Avg_Total_Loss |-> Format6(tot), Avg_MSE_Loss |-> Format6(mse),
     Avg_KLD_Loss |-> Format6(kld), Test_MSE_Loss |-> Format6(test)]

\* faulty variant: the log opened with 'w', truncating it
LogAppend_Truncate(log, line) == <<line>>

\* open(..., 'a') followed by write
LogAppend(log, line) == Append(log, line)

\* faulty variant: the cadence test without the lower bound on the epoch
ShouldSave_NoFloor(e) == e % SaveEvery = 0

\* the periodic checkpoint condition
ShouldSave(e) == e % SaveEvery = 0 /\ e > SaveAfter

\* torch.save(model.state_dict(), path)
TorchSave(fs, path, params) == [fs EXCEPT ![path] = params]

\* optimizer.step()
OptimizerStep(params) == params + 1

\* test_model: the sum of the per-image MSE over the held-out set
RECURSIVE TestSum(_, _)
TestSum(n, params) ==
    IF n = 0 THEN 0 ELSE TestSum(n - 1, params) + BatchMse(n, params)

\* ------------------------------------------------------------ batch body
\* faulty variant: the body without optimizer.zero_grad()
BatchBody_NoZeroGrad == <<"forward", "loss", "accumulate", "backward", "step">>

\* the statements of the training loop's body, in source order
BatchBody == <<"forward", "loss", "accumulate", "zero_grad", "backward", "step">>

\* effect of one statement on the process state s; s.ok turns FALSE on an error
Exec(stmt, s) ==
    LET t == [s EXCEPT !.ops = Append(s.ops, stmt)]
    IN CASE stmt = "forward" ->
              LET f == EncoderFeatures(InputShape)
              IN IF FlatSize(f) = LinearIn
                 THEN [t EXCEPT !.feat = f, !.recon = TRUE]
                 ELSE [s EXCEPT !.feat = f, !.ok = FALSE]
         [] stmt = "loss" ->
              IF s.recon
              THEN [t EXCEPT !.losses = loss_function(s.batch + 1, s.model)]
              ELSE [s EXCEPT !.ok = FALSE]
         [] stmt = "accumulate" ->
              IF s.losses # <<>>
              THEN [t EXCEPT !.total_mse_loss = @ + s.losses[1],
                             !.total_kld_loss = @ + s.losses[2],
                             !.total_loss = @ + s.losses[3]]
              ELSE [s EXCEPT !.ok = FALSE]
         [] stmt = "zero_grad" -> [t EXCEPT !.grads = "clear"]
         [] stmt = "backward" ->
              IF s.losses # <<>>
              THEN [t EXCEPT !.grads = IF s.grads = "clear" THEN "fresh" ELSE "accumulated"]
              ELSE [s EXCEPT !.ok = FALSE]
         [] stmt = "step" ->
              [t EXCEPT !.model = OptimizerStep(s.model), !.optSteps = @ + 1]

\* run the first k statements of body, stopping at the first error
RECURSIVE Run(_, _, _)
Run(body, k, s) ==
    IF k = 0 THEN s
    ELSE LET r == Run(body, k - 1, s)
         IN IF r.ok THEN Exec(body[k], r) ELSE r

\* faulty variant: the exception caught and the batch skipped
OnException_Continue == "batch"

\* no try/except surrounds the loop: an exception ends the process
OnException == "aborted"

\* ------------------------------------------------------------ state machine
NoQuot == <<0, 1>>

\* process-local state of a script that is not running
Idle ==
    /\ model = RandomInit /\ training = TRUE /\ grads = "clear"
    /\ epoch = 0 /\ batch = 0
    /\ total_mse_loss = 0 /\ total_kld_loss = 0 /\ total_loss = 0
    /\ avg_mse_loss = NoQuot /\ avg_kld_loss = NoQuot /\ avg_total_loss = NoQuot
    /\ avg_mse_test = NoQuot
    /\ feat = NoShape
    /\ num_images = 0 /\ i = 0
    /\ exc = "none"
    /\ optSteps = 0 /\ ops = <<>> /\ epochLosses = <<>>
    /\ startLen = 0 /\ startCkpt = NoFile /\ startModel = RandomInit
    /\ saved = <<>> /\ finalWrites = 0
    /\ written = <<>> /\ decodes = <<>> /\ encodes = 0

\* the same values given to the next state
IdleNext ==
    /\ model' = RandomInit /\ training' = TRUE /\ grads' = "clear"
    /\ epoch' = 0 /\ batch' = 0
    /\ total_mse_loss' = 0 /\ total_kld_loss' = 0 /\ total_loss' = 0
    /\ avg_mse_loss' = NoQuot /\ avg_kld_loss' = NoQuot /\ avg_total_loss' = NoQuot
    /\ avg_mse_test' = NoQuot
    /\ feat' = NoShape
    /\ num_images' = 0 /\ i' = 0
    /\ exc' = "none"
    /\ optSteps' = 0 /\ ops' = <<>> /\ epochLosses' = <<>>
    /\ startLen' = 0 /\ startCkpt' = NoFile /\ startModel' = RandomInit
    /\ saved' = <<>> /\ finalWrites' = 0
    /\ written' = <<>> /\ decodes' = <<>> /\ encodes' = 0

Init ==
    /\ files = [p \in Paths |-> NoFile]
    /\ history = <<>>
    /\ genFiles = <<>>
    /\ loads = {}
    /\ launches = 0
    /\ allotted = 0
    /\ lastRun = NoRun
    /\ num_epochs \in EpochChoices
    /\ nBatches \in 1 .. MaxBatches
    /\ nTest \in 0 .. MaxTest
    /\ proc = "none" /\ pc = "idle"
    /\ Idle

\* load_pretrained_model / load_model: torch.load of the path, then load_state_dict
LoadStateDict(fs, path) == fs[path]

\* vae.py up to the training loop: build or load the model, create the optimizer
StartTrainer ==
    /\ proc = "none"
    /\ launches < MaxProcs
    /\ allotted + num_epochs <= MaxLog
    /\ allotted' = allotted + num_epochs
    /\ launches' = launches + 1
    /\ proc' = "trainer"
    /\ pc' = "epoch"
    /\ IF files[SavedModelPath] # NoFile
       THEN /\ model' = LoadStateDict(files, SavedModelPath)
            /\ loads' = loads \cup {SavedModelPath}
       ELSE /\ model' = RandomInit
            /\ loads' = loads
    /\ startLen' = Len(history)
    /\ startCkpt' = files[SavedModelPath]
    /\ startModel' = model'
    /\ UNCHANGED <<files, history, genFiles, lastRun, confVars, training, trainVars, genVars,
                   exc, ghostTrain, ghostGen>>

\* faulty variant: running totals carried over from the previous epoch
ZeroAccumulators_Keep(tot) == tot

\* the three running totals set to zero at the head of an epoch
ZeroAccumulators(tot) == 0

\* for epoch in range(num_epochs): zero the accumulators, or leave the loop
EpochBegin ==
    /\ proc = "trainer" /\ pc = "epoch"
    /\ IF epoch < num_epochs
       THEN /\ total_mse_loss' = ZeroAccumulators(total_mse_loss)
            /\ total_kld_loss' = ZeroAccumulators(total_kld_loss)
            /\ total_loss' = ZeroAccumulators(total_loss)
            /\ batch' = 0
            /\ epochLosses' = <<>>
            /\ pc' = "batch"
       ELSE /\ pc' = "final"
            /\ UNCHANGED <<total_mse_loss, total_kld_loss, total_loss, batch, epochLosses>>
    /\ UNCHANGED <<fileVars, confVars, proc, model, training, grads, epoch,
                   avg_mse_loss, avg_kld_loss, avg_total_loss, avg_mse_test, feat,
                   genVars, exc, optSteps, ops, saved, finalWrites, ghostGen, startVars>>

\* the process state the batch body works on
BatchState ==
    [model |-> model, grads |-> grads, batch |-> batch,
     total_mse_loss |-> total_mse_loss, total_kld_loss |-> total_kld_loss,
     total_loss |-> total_loss, feat |-> feat, optSteps |-> optSteps,
     ops |-> <<>>, losses |-> <<>>, recon |-> FALSE, ok |-> TRUE]

\* the batch state written back to the process
StoreBatch(r) ==
    /\ model' = r.model /\ grads' = r.grads
    /\ total_mse_loss' = r.total_mse_loss
    /\ total_kld_loss' = r.total_kld_loss
    /\ total_loss' = r.total_loss
    /\ feat' = r.feat /\ optSteps' = r.optSteps /\ ops' = r.ops
    /\ epochLosses' = IF r.losses # <<>> THEN Append(epochLosses, r.losses) ELSE epochLosses

\* one iteration of `for data in dataloader`: the whole body, or its first k
\* statements followed by an exception
TrainBatch ==
    /\ proc = "trainer" /\ pc = "batch" /\ batch < nBatches
    /\ \/ LET r == Run(BatchBody, Len(BatchBody), BatchState)
          IN /\ StoreBatch(r)
             /\ IF r.ok
                THEN /\ batch' = batch + 1 /\ pc' = "batch" /\ exc' = exc
                ELSE /\ batch' = batch /\ pc' = OnException /\ exc' = "batch"
       \/ \E k \in 0 .. Len(BatchBody) - 1 :
             /\ StoreBatch(Run(BatchBody, k, BatchState))
             /\ batch' = batch /\ pc' = OnException /\ exc' = "batch"
    /\ UNCHANGED <<fileVars, confVars, proc, training, epoch,
                   avg_mse_loss, avg_kld_loss, avg_total_loss, avg_mse_test,
                   genVars, saved, finalWrites, ghostGen, startVars>>

\* faulty variant: an evaluation that also applies an update
TestModelParams_Trains(params) == params + 1

\* test_model's effect on the parameters: it runs forward passes under no_grad
TestModelParams(params) == params

\* after the last batch: the averages, then test_model on the held-out set
Evaluate ==
    /\ proc = "trainer" /\ pc = "batch" /\ batch = nBatches
    /\ avg_mse_loss' = Quot(total_mse_loss, nBatches)
    /\ avg_kld_loss' = Quot(total_kld_loss, nBatches)
    /\ avg_total_loss' = Quot(total_loss, nBatches)
    /\ training' = FALSE
    /\ model' = TestModelParams(model)
    /\ \/ /\ nTest = 0
          /\ exc' = "ZeroDivisionError" /\ pc' = "aborted"
          /\ UNCHANGED avg_mse_test
       \/ /\ nTest > 0
          /\ exc' = "test_batch" /\ pc' = OnException
          /\ UNCHANGED avg_mse_test
       \/ /\ nTest > 0
          /\ avg_mse_test' = Quot(TestSum(nTest, model), nTest)
          /\ pc' = "log" /\ exc' = exc
    /\ UNCHANGED <<fileVars, confVars, proc, grads, epoch, batch,
                   total_mse_loss, total_kld_loss, total_loss, feat,
                   genVars, ghostTrain, ghostGen, startVars>>

\* the line of the epoch appended to model_history.txt
WriteLog ==
    /\ proc = "trainer" /\ pc = "log"
    /\ history' = LogAppend(history,
                            LogLine(epoch, avg_total_loss, avg_mse_loss, avg_kld_loss,
                                    avg_mse_test))
    /\ pc' = "save"
    /\ UNCHANGED <<files, genFiles, loads, launches, allotted, lastRun, confVars, proc, model, training,
                   trainVars, genVars, exc, ghostTrain, ghostGen, startVars>>

\* the periodic checkpoint, then the next epoch
Checkpoint ==
    /\ proc = "trainer" /\ pc = "save"
    /\ IF ShouldSave(epoch)
       THEN /\ files' = TorchSave(files, SavedModelPath, model)
            /\ saved' = Append(saved, epoch)
       ELSE UNCHANGED <<files, saved>>
    /\ epoch' = epoch + 1
    /\ pc' = "epoch"
    /\ UNCHANGED <<history, genFiles, loads, launches, allotted, lastRun, confVars, proc, model, training,
                   grads, batch, total_mse_loss, total_kld_loss, total_loss,
                   avg_mse_loss, avg_kld_loss, avg_total_loss, avg_mse_test, feat,
                   genVars, exc, optSteps, ops, epochLosses, finalWrites, ghostGen,
                   startVars>>

\* after the loop: the final checkpoint
FinalSave ==
    /\ proc = "trainer" /\ pc = "final"
    /\ files' = TorchSave(files, FinalModelPath, model)
    /\ finalWrites' = finalWrites + 1
    /\ pc' = "done"
    /\ UNCHANGED <<history, genFiles, loads, launches, allotted, lastRun, confVars, proc, model, training,
                   trainVars, genVars, exc, optSteps, ops, epochLosses, saved, ghostGen,
                   startVars>>

\* ------------------------------------------------------------ generator
\* the decoder applied to a latent vector
Decode(params, z) == [params |-> params, z |-> z]

\* faulty variant: zero-based file names
FileName_ZeroBased(k) == <<"generated_image_", k, ".png">>

\* the name of the file of loop index k
FileName(k) == <<"generated_image_", k + 1, ".png">>

\* image.save(path): create or overwrite
SaveImage(dir, name, img) ==
    [f \in (DOMAIN dir) \cup {name} |-> IF f = name THEN img ELSE dir[f]]

\* generator.py up to the call of generate_images: load the model, eval()
StartGenerator ==
    /\ proc = "none"
    /\ launches < MaxProcs
    /\ launches' = launches + 1
    /\ proc' = "generator"
    /\ startLen' = Len(history)
    /\ startCkpt' = files[GeneratorModelPath]
    /\ \/ /\ files[GeneratorModelPath] = NoFile
          /\ exc' = "FileNotFoundError" /\ pc' = "aborted"
          /\ UNCHANGED <<model, training, num_images, loads, startModel>>
       \/ /\ files[GeneratorModelPath] # NoFile
          /\ model' = LoadStateDict(files, GeneratorModelPath)
          /\ loads' = loads \cup {GeneratorModelPath}
          /\ startModel' = model'
          /\ training' = FALSE
          /\ num_images' \in 0 .. MaxImages
          /\ pc' = "generate" /\ exc' = exc
    /\ UNCHANGED <<files, history, genFiles, allotted, lastRun, confVars, trainVars, i,
                   ghostTrain, ghostGen>>

\* one iteration of generate_images' loop: draw, decode under no_grad, save
GenerateImage ==
    /\ proc = "generator" /\ pc = "generate" /\ i < num_images
    /\ \E z \in 1 .. MaxLatent :
          LET grad_enabled == FALSE
              generated_image == Decode(model, z)
          IN /\ genFiles' = SaveImage(genFiles, FileName(i), generated_image)
             /\ written' = Append(written, FileName(i))
             /\ decodes' = Append(decodes, [z |-> z, grad |-> grad_enabled,
                                            image |-> generated_image])
    /\ i' = i + 1
    /\ UNCHANGED <<files, history, loads, launches, allotted, lastRun, confVars, proc, pc, model,
                   training, trainVars, num_images, exc, ghostTrain, encodes, startVars>>

\* generate_images returns
GenerateDone ==
    /\ proc = "generator" /\ pc = "generate" /\ i = num_images
    /\ pc' = "done"
    /\ UNCHANGED <<fileVars, confVars, proc, model, training, trainVars, genVars, exc,
                   ghostTrain, ghostGen, startVars>>

\* the script ends, normally or by the uncaught exception
Exit ==
    /\ proc # "none" /\ pc \in {"done", "aborted"}
    /\ lastRun' = IF proc = "trainer"
                  THEN IF pc = "done"
                       THEN [done |-> TRUE, startModel |-> startModel,
                             startCkpt |-> startCkpt]
                       ELSE NoRun
                  ELSE lastRun
    /\ proc' = "none" /\ pc' = "idle"
    /\ IdleNext
    /\ UNCHANGED <<files, history, genFiles, loads, launches, allotted, confVars>>

Next ==
    \/ StartTrainer \/ EpochBegin \/ TrainBatch \/ Evaluate \/ WriteLog
    \/ Checkpoint \/ FinalSave
    \/ StartGenerator \/ GenerateImage \/ GenerateDone
    \/ Exit

Spec == Init /\ [][Next]_vars

\* ------------------------------------------------------------ properties
Range(s) == {s[k] : k \in DOMAIN s}
IsPrefix(s, u) == Len(s) <= Len(u) /\ SubSeq(u, 1, Len(s)) = s
RECURSIVE SumCol(_, _)
SumCol(s, c) == IF s = <<>> THEN 0 ELSE s[1][c] + SumCol(Tail(s), c)
Count(s, x) == Cardinality({k \in DOMAIN s : s[k] = x})

\* epochs of range(n) at whose end the periodic checkpoint is due: 25, 50, ...
DueCount(n) == IF n >= 1 THEN (n - 1) \div SaveEvery ELSE 0
DueEpochs(n) == [k \in 1 .. DueCount(n) |-> k * SaveEvery]
\* the periodic checkpoint after a completed run of n epochs that started with
\* parameters m0 and periodic checkpoint ck0
ExpectedCkpt(ck0, m0, n) ==
    IF DueCount(n) >= 1 THEN m0 + (DueCount(n) * SaveEvery + 1) * nBatches ELSE ck0

\* epochs whose checkpoint step is behind the trainer
EpochsEnded == epoch

\* C1: the periodic checkpoint is written at the end of an epoch exactly when the
\* epoch counter is a multiple of 25 greater than 24: the epochs at which the running
\* trainer has written it are 25, 50, ... up to the last epoch ended, and the file holds
\* the parameters of the end of the latest of them, or is as the process found it.
C1_PeriodicCadence ==
    proc = "trainer" =>
        /\ saved = DueEpochs(EpochsEnded)
        /\ files[SavedModelPath] =
              IF saved = <<>> THEN startCkpt
              ELSE startModel + (saved[Len(saved)] + 1) * nBatches

C1_Witness ==
    /\ proc = "trainer" /\ pc = "batch"
    /\ epoch = 2 * SaveEvery + 1
    /\ saved = <<SaveEvery, 2 * SaveEvery>>

\* C2: when no batch raises, the training loop ends after exactly num_epochs epochs and
\* has then written the final checkpoint exactly once, holding the parameters after the
\* last optimizer step, at a path other than the periodic checkpoint's, whose content it
\* leaves alone.
C2_FixedBudgetAndFinal ==
    (proc = "trainer" /\ pc \in {"done", "aborted"} /\ exc \notin {"batch", "test_batch"}) =>
        /\ pc = "done"
        /\ epoch = num_epochs
        /\ finalWrites = 1
        /\ files[FinalModelPath] = model
        /\ model = startModel + num_epochs * nBatches
        /\ FinalModelPath # SavedModelPath
        /\ files[SavedModelPath] = ExpectedCkpt(startCkpt, startModel, num_epochs)

\* lines the running trainer has appended
LinesWritten == IF pc = "save" THEN epoch + 1 ELSE epoch

\* C3: the training log is append-only with one line per epoch: a step never changes or
\* removes a line and adds at most one; the trainer has appended one line per epoch
\* whose evaluation is done, carrying the epoch counters 0, 1, ... in order.
C3_LogAppendOnly ==
    /\ [](proc = "trainer" =>
            /\ Len(history) = startLen + LinesWritten
            /\ \A j \in 1 .. LinesWritten : history[startLen + j].Epoch = j - 1)
    /\ [][/\ IsPrefix(history, history')
          /\ Len(history') <= Len(history) + 1
          /\ (history' # history => proc = "trainer" /\ pc = "log")]_vars

C3_Witness ==
    /\ proc = "trainer" /\ pc = "save"
    /\ startLen > 0 /\ epoch = 1
    /\ Len(history) = startLen + 2

\* C4: within a process the model parameters change only in a batch step of the
\* training loop that applies the optimizer step; the evaluation, the log line, the
\* checkpoints and the generator's loop leave them as they are.
C4_ParamsOnlyByOptimizer ==
    [][(proc' = proc /\ model' # model) =>
          /\ proc = "trainer" /\ pc = "batch" /\ batch < nBatches
          /\ optSteps' = optSteps + 1
          /\ model' = OptimizerStep(model)
          /\ ops'[Len(ops')] = "step"]_vars

C4_Witness ==
    /\ proc = "trainer" /\ pc = "save" /\ epoch = SaveEvery
    /\ training = FALSE
    /\ optSteps = (SaveEvery + 1) * nBatches
    /\ model = startModel + optSteps

\* C5: an exception raised in a batch ends the run: once it is raised the process can
\* only exit, changing no checkpoint, no log line and no parameter; the log holds no
\* line for the interrupted epoch and no final checkpoint was written.
C5_ExceptionIsFatal ==
    /\ []((proc = "trainer" /\ exc \in {"batch", "test_batch"}) =>
            /\ Len(history) = startLen + epoch
            /\ finalWrites = 0
            /\ saved = DueEpochs(epoch))
    /\ [][(proc = "trainer" /\ exc \in {"batch", "test_batch"}) =>
            /\ proc' = "none"
            /\ UNCHANGED <<files, history, genFiles>>]_vars

C5_Witness ==
    /\ proc = "trainer" /\ exc = "batch" /\ pc = "aborted"
    /\ epoch = SaveEvery + 1 /\ batch = nBatches - 1
    /\ Len(ops) = Len(BatchBody) - 1

\* C6: when generate_images returns it has saved exactly num_images files, named
\* generated_image_1.png to generated_image_N.png in this order, each the decoding of
\* one latent draw made with gradient tracking off, and has not called the encoder.
C6_GeneratesN ==
    (proc = "generator" /\ pc = "done") =>
        /\ Len(written) = num_images
        /\ \A k \in 1 .. num_images : written[k] = <<"generated_image_", k, ".png">>
        /\ Len(decodes) = num_images
        /\ \A k \in 1 .. num_images :
              /\ decodes[k].grad = FALSE
              /\ decodes[k].z \in 1 .. MaxLatent
              /\ decodes[k].image = Decode(model, decodes[k].z)
              /\ genFiles[written[k]] = decodes[k].image
        /\ encodes = 0

C6_Witness ==
    /\ proc = "generator" /\ pc = "done"
    /\ num_images = MaxImages /\ i = MaxImages

\* sides of the feature maps after each encoder convolution of a 256x256 input
EncoderSides == [k \in 1 .. Len(EncoderConvs) |-> ShapeAfter(InputShape, k)[2]]

\* C7: for a 3x256x256 input the encoder's convolutions halve the side through
\* 256, 128, 64, 32, 16 and end at a 128x16x16 volume of 32768 elements.
C7_EncoderEndsAt16 ==
    (proc = "trainer" /\ feat # NoShape) =>
        /\ EncoderSides = <<256, 128, 128, 64, 64, 32, 16>>
        /\ feat = <<128, 16, 16>>
        /\ FlatSize(feat) = 32768

\* C8: the running totals are zero when an epoch's first batch starts, and the three
\* averages logged for an epoch are the sums of that epoch's per-batch losses divided
\* by the number of batches.
C8_AveragesPerEpoch ==
    /\ (proc = "trainer" /\ pc = "batch" /\ batch = 0) =>
          (total_mse_loss = 0 /\ total_kld_loss = 0 /\ total_loss = 0)
    /\ (proc = "trainer" /\ pc \in {"log", "save"}) =>
          /\ Len(epochLosses) = nBatches
          /\ avg_mse_loss = <<SumCol(epochLosses, 1), nBatches>>
          /\ avg_kld_loss = <<SumCol(epochLosses, 2), nBatches>>
          /\ avg_total_loss = <<SumCol(epochLosses, 3), nBatches>>
    /\ (proc = "trainer" /\ pc = "save") =>
          LET line == history[Len(history)]
          IN /\ line.Avg_MSE_Loss = Format6(<<SumCol(epochLosses, 1), nBatches>>)
             /\ line.Avg_KLD_Loss = Format6(<<SumCol(epochLosses, 2), nBatches>>)
             /\ line.Avg_Total_Loss = Format6(<<SumCol(epochLosses, 3), nBatches>>)

C8_Witness ==
    /\ proc = "trainer" /\ pc = "save"
    /\ epoch = MaxShort /\ nBatches = MaxBatches

\* the order the claim gives for the five operations it names
ClaimedOrder == <<"forward", "loss", "backward", "step", "accumulate">>
\* the operations of s that the claim names, in the order of s
Named(s) == SelectSeq(s, LAMBDA x : x \in Range(ClaimedOrder))

\* C9 as stated: each completed batch runs forward pass, losses, backpropagation,
\* optimizer step and accumulation of metrics in this order, with one optimizer step.
C9_OrderAsStated ==
    (proc = "trainer" /\ pc = "batch" /\ batch > 0 /\ exc = "none") =>
        /\ Named(ops) = ClaimedOrder
        /\ Count(ops, "step") = 1

\* C9 amended: each completed batch runs forward pass, losses, accumulation of metrics,
\* gradient zeroing, backpropagation and one optimizer step in this order; a batch cut
\* short ran a prefix of it; gradients are always zeroed right before backpropagation;
\* the optimizer steps applied are one per batch completed, epoch * nBatches after
\* epoch completed epochs.
C9_BatchOrder ==
    proc = "trainer" =>
        /\ IsPrefix(ops, <<"forward", "loss", "accumulate", "zero_grad", "backward", "step">>)
        /\ (pc = "batch" /\ batch > 0 /\ exc = "none") => Len(ops) = 6
        /\ Count(ops, "step") <= 1
        /\ grads # "accumulated"
        /\ pc = "epoch" => optSteps = epoch * nBatches
        /\ pc = "batch" => optSteps = epoch * nBatches + batch
        /\ pc \in {"log", "save"} => optSteps = (epoch + 1) * nBatches
        /\ model = startModel + optSteps

C9_Witness ==
    /\ proc = "trainer" /\ pc = "epoch"
    /\ epoch = MaxShort /\ nBatches = MaxBatches
    /\ optSteps = MaxShort * MaxBatches
    /\ Len(ops) = 6

\* the parameters a process loads after a completed trainer run r
ExpectedLoad(r) == ExpectedCkpt(r.startCkpt, r.startModel, num_epochs)

\* what C10 says of loading, apart from its last clause
LoadsPeriodicOnly ==
    /\ loads \subseteq {SavedModelPath}
    /\ (proc = "trainer" /\ pc = "done") =>
          files[SavedModelPath] = ExpectedCkpt(startCkpt, startModel, num_epochs)
    /\ (proc = "trainer" /\ lastRun.done) =>
          startModel = IF ExpectedLoad(lastRun) = NoFile THEN RandomInit
                       ELSE ExpectedLoad(lastRun)
    /\ (proc = "generator" /\ lastRun.done) =>
          IF ExpectedLoad(lastRun) = NoFile THEN exc = "FileNotFoundError"
          ELSE exc = "none" /\ model = ExpectedLoad(lastRun)

\* C10 as stated: only the periodic checkpoint is ever loaded; after a completed run of
\* n epochs it holds the parameters of the end of the latest epoch e < n that is a
\* multiple of 25 above 24, and these are not the parameters after the last optimizer
\* step; a run of n <= 25 epochs leaves it unchanged.
C10_AsStated ==
    /\ LoadsPeriodicOnly
    /\ (proc = "trainer" /\ pc = "done" /\ DueCount(num_epochs) >= 1) =>
          files[SavedModelPath] # model

\* C10 amended: as stated, except that the parameters loaded are those after the last
\* optimizer step exactly when the last epoch, n - 1, is itself a multiple of 25 above 24.
C10_LoadsPeriodicOnly ==
    /\ LoadsPeriodicOnly
    /\ (proc = "trainer" /\ pc = "done" /\ DueCount(num_epochs) >= 1) =>
          (files[SavedModelPath] = model <=> (num_epochs - 1) % SaveEvery = 0)
    /\ (proc = "trainer" /\ pc = "done") => files[FinalModelPath] = model

C10_Witness ==
    /\ proc = "generator" /\ pc = "generate" /\ lastRun.done
    /\ num_epochs = 2 * SaveEvery + MaxShort
    /\ model = (2 * SaveEvery + 1) * nBatches
    /\ files[FinalModelPath] = num_epochs * nBatches

====
